---- MODULE Spec2Model ----
\* gohttp: a command-line HTTP(S) diagnostic client (shuque/gohttp).
\* The model follows one run of main(): doFlags, url2addressport, getIpList,
\* prologue, getRequest, then one querySingle per selected address
\* (getClient/getTLSConfig, readResponse, the report blocks).
\* Text is modelled as sequences of tokens, with ":" a token of its own, so
\* that SplitN and strings.Contains are computed and not assumed.
EXTENDS Integers, Sequences, FiniteSets, TLC

VARIABLES
    pc,         \* position of main()
    argv,       \* the command line, as flag.Parse reads it
    options,    \* the global options struct
    username,   \* options.username: "" or the credential's first part
    password,   \* options.password
    urlstring,  \* the value doFlags returns
    hostname,   \* url2addressport results
    port,
    lookedup,   \* what net.LookupIP returned (unfiltered)
    lookups,    \* number of net.LookupIP calls made
    iplist,     \* getIpList's result
    request,    \* the *http.Request built by getRequest
    idx,        \* number of addresses the loop of main has started on
    address,    \* querySingle's address argument
    client,     \* the http.Client built by getClient
    attempts,   \* one entry per client.Do call, in order
    response,   \* readResponse's response, between client.Do and ReadAll
    result,     \* the *Result of the current readResponse
    output,     \* what was printed so far, one event per block
    now,        \* wall clock
    t0,         \* readResponse's t0
    tHeaders,   \* clock value when client.Do returned the response headers
    tBody       \* clock value when ioutil.ReadAll returned

vars == <<pc, argv, options, username, password, urlstring, hostname, port,
          lookedup, lookups, iplist, request, idx, address, client, attempts,
          response, result, output, now, t0, tHeaders, tBody>>

----------------------------------------------------------------------------
\* Bounds of the model.

\* Longest address list net.LookupIP returns.
MaxAddrs == 2
\* Largest clock value; an exchange step takes 0..MaxTime - now ticks.
MaxTime == 1
\* Number of command-line settings that differ from the plain invocation
\* "gohttp https://example.test/".
MaxArgs == 2
\* Longest list of -header arguments.
MaxHeaders == 1
\* Longest lookup result the address filter is run on by itself.
MaxList == 3
MaxChain == 2

----------------------------------------------------------------------------
\* Text helpers.

Empty == <<>>
\* a nil error
NoErr == ""

\* strings.Contains(s, ":")
Contains(s, tok) == \E i \in 1..Len(s) : s[i] = tok

\* index of the first ":" of s, 0 when there is none
RECURSIVE IndexFrom(_, _, _)
IndexFrom(s, tok, i) ==
    IF i > Len(s) THEN 0
    ELSE IF s[i] = tok THEN i
    ELSE IndexFrom(s, tok, i + 1)

\* strings.SplitN(s, ":", 2): one part when s has no ":", else the text before
\* the first ":" and the text after it.
SplitN2(s) ==
    LET i == IndexFrom(s, ":", 1)
    IN  IF i = 0 THEN <<s>>
        ELSE <<SubSeq(s, 1, i - 1), SubSeq(s, i + 1, Len(s))>>

----------------------------------------------------------------------------
\* Addresses (net.IP): a byte slice of length 4 or 16; a 16-byte slice may
\* carry the IPv4-in-IPv6 prefix ::ffff:0:0/96.

IP4a == [len |-> 4,  v4in6 |-> FALSE, lo |-> "192.0.2.1"]
IP4m == [len |-> 16, v4in6 |-> TRUE,  lo |-> "192.0.2.2"]
IP6a == [len |-> 16, v4in6 |-> FALSE, lo |-> "1"]
Addrs == {IP4a, IP4m, IP6a}

\* net.IP.To4: the 4-byte form, or nil when the address has none.
NilIP == [len |-> 0, v4in6 |-> FALSE, lo |-> ""]
To4(ip) ==
    IF ip.len = 4 THEN ip
    ELSE IF ip.v4in6 THEN [len |-> 4, v4in6 |-> FALSE, lo |-> ip.lo]
    ELSE NilIP

\* net.IP.String: dotted quad for an address with a 4-byte form, else the
\* colon-hex form.
IPString(ip) ==
    IF To4(ip) # NilIP THEN <<ip.lo>>
    ELSE <<":", ":", ip.lo>>

\* Sequences over S of length lo..hi.
SeqsBetween(S, lo, hi) == UNION {[1..n -> S] : n \in lo..hi}

\* What net.LookupIP can return on success: the host's addresses, each once,
\* in the resolver's order.
LookupResults ==
    {l \in SeqsBetween(Addrs, 1, MaxAddrs) :
        \A i, j \in 1..Len(l) : l[i] = l[j] => i = j}

\* Any list of addresses, repeats included, for the filter by itself.
IP6b == [len |-> 16, v4in6 |-> FALSE, lo |-> "2"]
WideLookupResults == SeqsBetween(Addrs \cup {IP6b}, 1, MaxList)

----------------------------------------------------------------------------
\* URLs, as url.Parse sees them.

UrlHttps == [ok |-> TRUE,  scheme |-> "https", host |-> "example.test", port |-> Empty]
UrlHttpPort == [ok |-> TRUE,  scheme |-> "http",  host |-> "example.test", port |-> <<"8080">>]
UrlBad == [ok |-> FALSE, scheme |-> "", host |-> "", port |-> Empty]
Urls == {UrlHttps, UrlHttpPort, UrlBad}
UrlHttps8443 == [ok |-> TRUE, scheme |-> "https", host |-> "example.test", port |-> <<"8443">>]

portMap(scheme) ==
    CASE scheme = "http" -> <<"80">>
      [] scheme = "https" -> <<"443">>
      [] OTHER -> Empty

\* url2addressport: <<hostname, port, err>>
url2addressport(u) ==
    IF ~u.ok THEN <<"", Empty, "parse error">>
    ELSE <<u.host, IF u.port = Empty THEN portMap(u.scheme) ELSE u.port, NoErr>>

----------------------------------------------------------------------------
\* The command line.

HdrGood == <<"X-Test", ":", " 1">>
HdrTwoColons == <<"X-Time", ":", " 10", ":", "30">>
HdrNoColon == <<"X-NoColon">>
HeaderArgs == {HdrGood, HdrTwoColons, HdrNoColon}
HdrUA == <<"User-Agent", ":", " curl">>

CredGood == <<"alice", ":", "secret">>
CredNoColon == <<"alice">>
AuthArgs == {Empty, CredGood, CredNoColon}

SniArgs == {"", "sni.test"}
CaCertArgs == {"", "ca.pem", "missing.pem"}
ClientCertArgs == {"", "client.pem", "badclient.pem"}
\* garbage.pem can be read and holds no certificate; the key of
\* mismatch.pem is the key of another certificate
WideCaCertArgs == CaCertArgs \cup {"garbage.pem"}
WideClientCertArgs == ClientCertArgs \cup {"mismatch.pem"}

defaultAgent == "gohttp"

\* The plain invocation: no flag, one URL.
PlainArgv ==
    [ipv6only |-> FALSE, ipv4only |-> FALSE, printbody |-> FALSE,
     bodyonly |-> FALSE, queryall |-> FALSE, noredirect |-> FALSE,
     noverify |-> FALSE, help |-> FALSE, sni |-> "", cacert |-> "",
     clientcert |-> "", authbasic |-> Empty, headers |-> Empty,
     showcert |-> FALSE, showcertchain |-> FALSE,
     args |-> <<UrlHttps>>]

\* The command lines of the whole-run specification; -showcert and
\* -showcertchain are varied in the specification of the report.
AllArgv ==
    [ipv6only : BOOLEAN, ipv4only : BOOLEAN, printbody : BOOLEAN,
     bodyonly : BOOLEAN, queryall : BOOLEAN, noredirect : BOOLEAN,
     noverify : BOOLEAN, help : BOOLEAN, sni : SniArgs, cacert : CaCertArgs,
     clientcert : ClientCertArgs, authbasic : AuthArgs,
     headers : SeqsBetween(HeaderArgs, 0, MaxHeaders),
     showcert : {FALSE}, showcertchain : {FALSE},
     args : {Empty} \cup {<<u>> : u \in Urls}]

\* Number of settings in which a command line differs from the plain one.
Changed(a) ==
    Cardinality({f \in DOMAIN a \ {"headers"} : a[f] # PlainArgv[f]})
    + Len(a.headers)

CommandLines == {a \in AllArgv : Changed(a) <= MaxArgs}

\* var options = Options{...}
DefaultOptions ==
    [ipv6only |-> FALSE, ipv4only |-> FALSE, printbody |-> FALSE,
     bodyonly |-> FALSE, queryall |-> FALSE, sni |-> "", headers |-> Empty,
     cacert |-> "", clientcert |-> "", noredirect |-> FALSE,
     noverify |-> FALSE, showcert |-> FALSE, showcertchain |-> FALSE,
     useragent |-> defaultAgent]

\* flag.Parse: every flag variable bound to a field of options gets the
\* command line's value.
FlagParse(a) ==
    [ipv6only |-> a.ipv6only, ipv4only |-> a.ipv4only,
     printbody |-> a.printbody, bodyonly |-> a.bodyonly,
     queryall |-> a.queryall, sni |-> a.sni, headers |-> a.headers,
     cacert |-> a.cacert, clientcert |-> a.clientcert,
     noredirect |-> a.noredirect, noverify |-> a.noverify,
     showcert |-> a.showcert, showcertchain |-> a.showcertchain,
     useragent |-> defaultAgent]

\* (mutant) the check of -4 together with -6 is missing
BothFamiliesUnchecked(o) == FALSE

\* doFlags: "Cannot specify both -4 and -6"
BothFamilies(o) == o.ipv6only /\ o.ipv4only

\* (mutant) only queryall implies noredirect; -4/-6 imply nothing
ImplicationsQueryallOnly(o) ==
    IF o.queryall THEN [o EXCEPT !.noredirect = TRUE] ELSE o

\* doFlags, after the parse: -4/-6 imply queryall, queryall implies
\* noredirect.
Implications(o) ==
    LET o1 == IF o.ipv6only \/ o.ipv4only THEN [o EXCEPT !.queryall = TRUE] ELSE o
    IN  IF o1.queryall THEN [o1 EXCEPT !.noredirect = TRUE] ELSE o1

----------------------------------------------------------------------------
\* getIpList's filter loop over the lookup result.

\* (mutant) a surviving address is put in front of the list
FilterStepPrepend(o, filteredlist, ipaddress) ==
    LET isipv4 == (To4(ipaddress) # NilIP)
    IN  IF o.ipv6only /\ isipv4 THEN filteredlist
        ELSE IF o.ipv4only /\ ~isipv4 THEN filteredlist
        ELSE <<ipaddress>> \o filteredlist

\* one iteration: the list after ipaddress was looked at
FilterStep(o, filteredlist, ipaddress) ==
    LET isipv4 == (To4(ipaddress) # NilIP)
    IN  IF o.ipv6only /\ isipv4 THEN filteredlist
        ELSE IF o.ipv4only /\ ~isipv4 THEN filteredlist
        ELSE Append(filteredlist, ipaddress)

RECURSIVE FilterLoop(_, _, _, _)
FilterLoop(o, list, i, filteredlist) ==
    IF i > Len(list) THEN filteredlist
    ELSE FilterLoop(o, list, i + 1, FilterStep(o, filteredlist, list[i]))

\* getIpList, given what net.LookupIP returned
getIpList(o, list) ==
    IF ~(o.ipv6only \/ o.ipv4only) THEN list
    ELSE FilterLoop(o, list, 1, Empty)

----------------------------------------------------------------------------
\* getRequest.

NilRequest == [nil |-> TRUE, url |-> UrlBad, header |-> Empty]

\* http.Header.Add: one more value under the key
HeaderAdd(header, key, val) == Append(header, [key |-> key, val |-> val])

\* the header loop of getRequest; "panic" when a header has no second part
RECURSIVE AddHeaders(_, _, _)
AddHeaders(header, hs, i) ==
    IF i > Len(hs) THEN [panic |-> FALSE, header |-> header]
    ELSE LET tmp == SplitN2(hs[i])
         IN  IF Len(tmp) < 2 THEN [panic |-> TRUE, header |-> header]
             ELSE AddHeaders(HeaderAdd(header, tmp[1], tmp[2]), hs, i + 1)

\* the values under a key, in the order they were added
HeaderValues(header, key) ==
    LET at == {i \in 1..Len(header) : header[i].key = key}
        RECURSIVE Collect(_)
        Collect(i) == IF i > Len(header) THEN Empty
                      ELSE (IF i \in at THEN <<header[i].val>> ELSE Empty) \o Collect(i + 1)
    IN  Collect(1)

\* http.Header.Get: the first value under the key, which is the one value
\* of User-Agent a request is sent with
HeaderGet(header, key) ==
    IF HeaderValues(header, key) = Empty THEN Empty
    ELSE Head(HeaderValues(header, key))

\* getRequest(url): the request, or panic (index out of range at tmp[1])
getRequest(o, u) ==
    LET h0 == HeaderAdd(Empty, <<"User-Agent">>, <<o.useragent>>)
        r  == AddHeaders(h0, o.headers, 1)
    IN  [panic |-> r.panic,
         request |-> [nil |-> FALSE, url |-> u, header |-> r.header]]

----------------------------------------------------------------------------
\* getTLSConfig and getClient.

\* the files ioutil.ReadFile can read
Readable(file) == file \in {"ca.pem", "garbage.pem", "client.pem"}

\* x509.CertPool.AppendCertsFromPEM: the certificates found in the file's
\* bytes; none when the bytes hold no PEM certificate. getTLSConfig does not
\* look at the boolean it returns.
AppendCertsFromPEM(certs, file) ==
    IF file \in {"ca.pem"} THEN certs \cup {file} ELSE certs

\* tls.LoadX509KeyPair succeeds: both files are read and parsed and the key
\* belongs to the certificate
LoadX509KeyPairOk(file) == file \in {"client.pem"}

\* RootCAs of a tls.Config: nil (the system roots are used) or a pool that
\* holds exactly certs
NilPool == [nil |-> TRUE, certs |-> {}]
NewCertPool == [nil |-> FALSE, certs |-> {}]

\* (mutant) the CA bundle is loaded whether or not noverify is set
getTLSConfigAlwaysLoad(o) ==
    LET c0 == [fatal |-> FALSE, ServerName |-> o.sni,
               InsecureSkipVerify |-> o.noverify, RootCAs |-> NilPool,
               Certificates |-> "", read |-> {}]
        c1 == IF o.cacert # "" THEN
                  IF ~Readable(o.cacert)
                  THEN [c0 EXCEPT !.fatal = TRUE, !.read = {o.cacert}]
                  ELSE [c0 EXCEPT
                          !.RootCAs = [NewCertPool EXCEPT
                              !.certs = AppendCertsFromPEM(@, o.cacert)],
                          !.read = {o.cacert}]
              ELSE c0
    IN  IF c1.fatal THEN c1
        ELSE IF o.clientcert # "" THEN
            IF ~LoadX509KeyPairOk(o.clientcert)
            THEN [c1 EXCEPT !.fatal = TRUE, !.read = @ \cup {o.clientcert}]
            ELSE [c1 EXCEPT !.Certificates = o.clientcert,
                            !.read = @ \cup {o.clientcert}]
        ELSE c1

\* getTLSConfig: the tls.Config, the files it read, and whether it ended in
\* log.Fatal
getTLSConfig(o) ==
    LET c0 == [fatal |-> FALSE, ServerName |-> o.sni,
               InsecureSkipVerify |-> FALSE, RootCAs |-> NilPool,
               Certificates |-> "", read |-> {}]
        c1 == IF o.noverify THEN [c0 EXCEPT !.InsecureSkipVerify = TRUE]
              ELSE IF o.cacert # "" THEN
                  IF ~Readable(o.cacert)
                  THEN [c0 EXCEPT !.fatal = TRUE, !.read = {o.cacert}]
                  ELSE [c0 EXCEPT
                          !.RootCAs = [NewCertPool EXCEPT
                              !.certs = AppendCertsFromPEM(@, o.cacert)],
                          !.read = {o.cacert}]
              ELSE c0
    IN  IF c1.fatal THEN c1
        ELSE IF o.clientcert # "" THEN
            IF ~LoadX509KeyPairOk(o.clientcert)
            THEN [c1 EXCEPT !.fatal = TRUE, !.read = @ \cup {o.clientcert}]
            ELSE [c1 EXCEPT !.Certificates = o.clientcert,
                            !.read = @ \cup {o.clientcert}]
        ELSE c1

NilClient == [nil |-> TRUE, tls |-> getTLSConfig(DefaultOptions),
              dial |-> Empty, checkRedirect |-> FALSE]

\* getClient(address): DialContext is overridden only for a non-empty address
getClient(o, addr) ==
    [nil |-> FALSE, tls |-> getTLSConfig(o),
     dial |-> IF addr # Empty THEN addr ELSE Empty,
     checkRedirect |-> o.noredirect]

\* (mutant) the dialer dials the address the transport asked for
DialTargetAsked(c, unusedaddress) == unusedaddress

\* The address a connection of client c is dialed to when the transport asks
\* for unusedaddress: the DialContext closure ignores its argument.
DialTarget(c, unusedaddress) ==
    IF c.dial # Empty THEN c.dial ELSE unusedaddress

\* (mutant) no brackets around an address with colons
addressStringNoBrackets(ipaddress, p) == IPString(ipaddress) \o <<":">> \o p

\* addressString(ipaddress, port)
addressString(ipaddress, p) ==
    IF ~Contains(IPString(ipaddress), ":")
    THEN IPString(ipaddress) \o <<":">> \o p
    ELSE <<"[">> \o IPString(ipaddress) \o <<"]">> \o <<":">> \o p

----------------------------------------------------------------------------
\* net/http, as far as the run depends on it.

\* host:port the transport asks the dialer for, for a request to url u
HostPort(h, p) == <<h>> \o <<":">> \o p

\* where a redirect response points
RedirectHostPort == <<"other.test", ":", "443">>

\* the server name of the handshake: tls.Config.ServerName, else the host of
\* the request
HandshakeName(c, req) ==
    IF c.tls.ServerName # "" THEN c.tls.ServerName ELSE req.url.host

\* the Host header: the host of the request URL (request.Host is not set)
HostHeader(req) == req.url.host

\* Certificates: subject and issuer. Cert(i) is issued by Cert(i + 1).
CertNames == <<"CN=example.test", "CN=Intermediate", "CN=Root", "CN=OldRoot",
               "CN=Extra1", "CN=Extra2">>
Cert(i) == [Subject |-> CertNames[i], Issuer |-> CertNames[i + 1]]
CrossCert == [Subject |-> "CN=Intermediate", Issuer |-> "CN=OldRoot"]

\* the chain of length n a server presents, leaf first
PeerChain(n) == [i \in 1..n |-> Cert(i)]

\* crypto/tls: the chains the handshake verified, none when verification is
\* skipped; each verified chain starts at the peer's leaf
ChainToRoot == <<Cert(1), Cert(2), Cert(3)>>
ChainToOldRoot == <<Cert(1), CrossCert, Cert(4)>>
VerifiedChainsOf(c, many) ==
    IF c.tls.InsecureSkipVerify THEN Empty
    ELSE IF many THEN <<ChainToRoot, ChainToOldRoot>>
    ELSE <<ChainToRoot>>

\* tls.ConnectionState of a response, as far as printTLSinfo shows chains
ConnState(peer, verified) == [PeerCertificates |-> peer, VerifiedChains |-> verified]
NoConnState == ConnState(Empty, Empty)

\* the servers of the whole-run specification present one chain
PlainServers == {[chain |-> 2, many |-> FALSE]}
WideServers == [chain : 1..MaxChain, many : BOOLEAN]

\* a handshake that verifies needs a root: an empty pool of the client's own
\* verifies no server
CanVerify(c) ==
    c.tls.InsecureSkipVerify \/ c.tls.RootCAs.nil \/ c.tls.RootCAs.certs # {}

NilResponse == [nil |-> TRUE, StatusCode |-> 0, TLS |-> FALSE, State |-> NoConnState]
NilResult == [response |-> NilResponse, body |-> Empty, responsetime |-> 0,
              err |-> NoErr]

\* errors client.Do can return
DoErrors == {"connect failed", "handshake failed", "timeout"}
StatusCodes == {200, 302}

----------------------------------------------------------------------------
\* Output: one event per printed block.

Event(ev, arg) == [ev |-> ev, arg |-> arg]

\* The blocks record what kind of block was printed; the values inside a
\* block stay in result.

\* printCertChainDetails: the header, then every certificate of the chain
printCertChainDetails(chain) ==
    <<Event("FullChain", Empty)>>
    \o [i \in 1..Len(chain) |-> Event("PeerCert", <<chain[i].Subject, chain[i].Issuer>>)]

\* printVerifiedChains: one header and the certificates of each chain
RECURSIVE printVerifiedChains(_)
printVerifiedChains(chains) ==
    IF chains = Empty THEN Empty
    ELSE LET row == Head(chains)
         IN  <<Event("VerifiedChain", Empty)>>
             \o [j \in 1..Len(row) |-> Event("VerifiedCert", <<row[j].Subject, row[j].Issuer>>)]
             \o printVerifiedChains(Tail(chains))

\* (mutant) the verified chains are printed before the chain the peer sent
printTLSinfoVerifiedFirst(o, resp) ==
    IF ~resp.TLS THEN <<Event("TLS", <<"NONE">>)>>
    ELSE <<Event("TLS", Empty)>>
         \o (IF o.showcertchain
             THEN printVerifiedChains(resp.State.VerifiedChains)
                  \o printCertChainDetails(resp.State.PeerCertificates)
             ELSE IF o.showcert
             THEN <<Event("PeerCertificate", <<resp.State.PeerCertificates[1].Subject,
                                                resp.State.PeerCertificates[1].Issuer>>)>>
             ELSE Empty)

printTLSinfo(o, resp) ==
    IF ~resp.TLS THEN <<Event("TLS", <<"NONE">>)>>
    ELSE <<Event("TLS", Empty)>>
         \o (IF o.showcertchain
             THEN printCertChainDetails(resp.State.PeerCertificates)
                  \o printVerifiedChains(resp.State.VerifiedChains)
             ELSE IF o.showcert
             THEN <<Event("PeerCertificate", <<resp.State.PeerCertificates[1].Subject,
                                                resp.State.PeerCertificates[1].Issuer>>)>>
             ELSE Empty)

\* (mutant) the blocks of a response are printed although the result has an error
ReportBlocksDespiteErr(o, r) ==
    (IF r.err # NoErr THEN <<Event("error", Empty)>> ELSE Empty)
    \o (IF r.response.nil THEN Empty
        ELSE <<Event("ResponseTime", Empty), Event("Status", Empty), Event("Headers", Empty)>>)

\* querySingle after readResponse: what it prints for a result
ReportBlocks(o, r) ==
    IF r.err # NoErr THEN <<Event("error", Empty)>>
    ELSE (IF ~o.bodyonly
          THEN <<Event("ResponseTime", Empty)>>
               \o printTLSinfo(o, r.response)
               \o <<Event("Status", Empty), Event("Headers", Empty)>>
          ELSE Empty)
         \o
         (IF o.printbody \/ o.bodyonly
          THEN <<Event("Body", Empty)>>
          ELSE Empty)

\* (mutant) the error of client.Do is not stored in the result
DoFailedErrLost(err) == NilResult

\* readResponse's result when client.Do failed
DoFailed(err) == [NilResult EXCEPT !.err = err]

\* (mutant) the response time is read off the clock without subtracting t0
AfterReadAllNoStart(resp, body, err, start, t) ==
    [response |-> resp, body |-> body, responsetime |-> t, err |-> err]

\* readResponse's result after ioutil.ReadAll returned (body, err) at clock
\* value t
AfterReadAll(resp, body, err, start, t) ==
    [response |-> resp, body |-> body, responsetime |-> t - start, err |-> err]

----------------------------------------------------------------------------
\* The run.

InitFrom(cmdlines) ==
    /\ pc = "doFlags"
    /\ argv \in cmdlines
    /\ options = DefaultOptions
    /\ username = Empty
    /\ password = Empty
    /\ urlstring = UrlBad
    /\ hostname = ""
    /\ port = Empty
    /\ lookedup = Empty
    /\ lookups = 0
    /\ iplist = Empty
    /\ request = NilRequest
    /\ idx = 0
    /\ address = Empty
    /\ client = NilClient
    /\ attempts = Empty
    /\ response = NilResponse
    /\ result = NilResult
    /\ output = Empty
    /\ now = 0
    /\ t0 = 0
    /\ tHeaders = 0
    /\ tBody = 0

Init == InitFrom(CommandLines)

\* doFlags
DoFlags ==
    /\ pc = "doFlags"
    /\ LET o   == FlagParse(argv)
           tmp == SplitN2(argv.authbasic)
       IN  IF argv.authbasic # Empty /\ Len(tmp) < 2
           THEN \* tmp[1] is out of range
                /\ pc' = "panic"
                /\ options' = o
                /\ username' = tmp[1]
                /\ UNCHANGED <<password, urlstring>>
           ELSE /\ username' = IF argv.authbasic # Empty THEN tmp[1] ELSE Empty
                /\ password' = IF argv.authbasic # Empty THEN tmp[2] ELSE Empty
                /\ IF BothFamilies(o)
                   THEN /\ pc' = "exit4"
                        /\ options' = o
                        /\ UNCHANGED urlstring
                   ELSE /\ options' = Implications(o)
                        /\ IF argv.help \/ Len(argv.args) # 1
                           THEN /\ pc' = "exit4"
                                /\ UNCHANGED urlstring
                           ELSE /\ pc' = "url2addressport"
                                /\ urlstring' = argv.args[1]
    /\ UNCHANGED <<argv, hostname, port, lookedup, lookups, iplist, request,
                   idx, address, client, attempts, response, result, output,
                   now, t0, tHeaders, tBody>>

\* main: url2addressport(urlstring), log.Fatal on error
Url2AddressPort ==
    /\ pc = "url2addressport"
    /\ LET r == url2addressport(urlstring)
       IN  IF r[3] # NoErr
           THEN /\ pc' = "fatal"
                /\ UNCHANGED <<hostname, port>>
           ELSE /\ pc' = "getIpList"
                /\ hostname' = r[1]
                /\ port' = r[2]
    /\ UNCHANGED <<argv, options, username, password, urlstring, lookedup,
                   lookups, iplist, request, idx, address, client, attempts,
                   response, result, output, now, t0, tHeaders, tBody>>

\* main: getIpList(hostname), the lookup fails
GetIpListFail ==
    /\ pc = "getIpList"
    /\ lookups' = lookups + 1
    /\ pc' = "fatal"
    /\ UNCHANGED <<argv, options, username, password, urlstring, hostname,
                   port, lookedup, iplist, request, idx, address, client,
                   attempts, response, result, output, now, t0, tHeaders, tBody>>

\* main: getIpList(hostname), the lookup returns one of lists
GetIpListFrom(lists) ==
    /\ pc = "getIpList"
    /\ lookups' = lookups + 1
    /\ \E list \in lists :
          /\ lookedup' = list
          /\ iplist' = getIpList(options, list)
    /\ pc' = "prologue"
    /\ UNCHANGED <<argv, options, username, password, urlstring, hostname,
                   port, request, idx, address, client, attempts, response,
                   result, output, now, t0, tHeaders, tBody>>

GetIpList == GetIpListFrom(LookupResults)

\* main: prologue, unless bodyonly
Prologue ==
    /\ pc = "prologue"
    /\ output' = IF ~options.bodyonly
                 THEN Append(output, Event("prologue", <<hostname>> \o port))
                 ELSE output
    /\ pc' = "getRequest"
    /\ UNCHANGED <<argv, options, username, password, urlstring, hostname,
                   port, lookedup, lookups, iplist, request, idx, address,
                   client, attempts, response, result, now, t0, tHeaders, tBody>>

\* (mutant) main always loops over the address list
ProbeModeAlwaysLoop(o) == "loop"

\* main: the loop over iplist when queryall is set, else one querySingle
ProbeMode(o) == IF o.queryall THEN "loop" ELSE "single"

\* main: request = getRequest(urlstring)
GetRequest ==
    /\ pc = "getRequest"
    /\ LET r == getRequest(options, urlstring)
       IN  IF r.panic
           THEN /\ pc' = "panic"
                /\ UNCHANGED request
           ELSE /\ request' = r.request
                /\ pc' = ProbeMode(options)
    /\ UNCHANGED <<argv, options, username, password, urlstring, hostname,
                   port, lookedup, lookups, iplist, idx, address, client,
                   attempts, response, result, output, now, t0, tHeaders, tBody>>

\* main, queryall: the next address of the loop, its CONNECT line
LoopNext ==
    /\ pc = "loop"
    /\ idx < Len(iplist)
    /\ idx' = idx + 1
    /\ output' = Append(output, Event("CONNECT", IPString(iplist[idx + 1]) \o port))
    /\ address' = addressString(iplist[idx + 1], port)
    /\ pc' = "getClient"
    /\ UNCHANGED <<argv, options, username, password, urlstring, hostname,
                   port, lookedup, lookups, iplist, request, client, attempts,
                   response, result, now, t0, tHeaders, tBody>>

\* main, queryall: the loop is over
LoopEnd ==
    /\ pc = "loop"
    /\ idx >= Len(iplist)
    /\ pc' = "done"
    /\ UNCHANGED <<argv, options, username, password, urlstring, hostname,
                   port, lookedup, lookups, iplist, request, idx, address,
                   client, attempts, response, result, output, now, t0,
                   tHeaders, tBody>>

\* main, not queryall: one querySingle(request, "")
Single ==
    /\ pc = "single"
    /\ output' = Append(output, Event("blank", Empty))
    /\ address' = Empty
    /\ pc' = "getClient"
    /\ UNCHANGED <<argv, options, username, password, urlstring, hostname,
                   port, lookedup, lookups, iplist, request, idx, client,
                   attempts, response, result, now, t0, tHeaders, tBody>>

\* querySingle: client := getClient(address)
GetClient ==
    /\ pc = "getClient"
    /\ LET c == getClient(options, address)
       IN  IF c.tls.fatal
           THEN /\ pc' = "fatal"
                /\ UNCHANGED client
           ELSE /\ client' = c
                /\ pc' = "do"
    /\ UNCHANGED <<argv, options, username, password, urlstring, hostname,
                   port, lookedup, lookups, iplist, request, idx, address,
                   attempts, response, result, output, now, t0, tHeaders, tBody>>

\* one client.Do call, as seen from outside
Attempt(dials) ==
    [address |-> address, dials |-> dials,
     servername |-> HandshakeName(client, request),
     host |-> HostHeader(request), auth |-> username # Empty,
     agent |-> HeaderGet(request.header, <<"User-Agent">>)]

\* readResponse: t0 := time.Now(); client.Do(request) fails
ClientDoFail ==
    /\ pc = "do"
    /\ t0' = now
    /\ \E err \in DoErrors, d \in 0..(MaxTime - now) :
          /\ now' = now + d
          /\ result' = DoFailed(err)
    /\ attempts' = Append(attempts, Attempt(<<DialTarget(client, HostPort(hostname, port))>>))
    /\ pc' = "report"
    /\ UNCHANGED <<argv, options, username, password, urlstring, hostname,
                   port, lookedup, lookups, iplist, request, idx, address,
                   client, response, output, tHeaders, tBody>>

\* readResponse: t0 := time.Now(); client.Do(request) returns a response. A
\* 302 is followed to its target unless CheckRedirect is set.
ClientDoOkFrom(servers) ==
    /\ pc = "do"
    /\ t0' = now
    /\ \E st \in StatusCodes, d \in 0..(MaxTime - now), srv \in servers :
          /\ now' = now + d
          /\ tHeaders' = now + d
          /\ LET follow == (st = 302 /\ ~client.checkRedirect)
                 first  == DialTarget(client, HostPort(hostname, port))
                 secure == (follow \/ urlstring.scheme = "https")
             IN  /\ secure => CanVerify(client)
                 /\ response' = [nil |-> FALSE,
                                 StatusCode |-> IF follow THEN 200 ELSE st,
                                 TLS |-> secure,
                                 State |-> IF secure
                                           THEN ConnState(PeerChain(srv.chain),
                                                    VerifiedChainsOf(client, srv.many))
                                           ELSE NoConnState]
                 /\ attempts' = Append(attempts, Attempt(
                        IF follow
                        THEN <<first, DialTarget(client, RedirectHostPort)>>
                        ELSE <<first>>))
    /\ pc' = "readAll"
    /\ UNCHANGED <<argv, options, username, password, urlstring, hostname,
                   port, lookedup, lookups, iplist, request, idx, address,
                   client, result, output, tBody>>

ClientDoOk == ClientDoOkFrom(PlainServers)

\* readResponse: ioutil.ReadAll(response.Body), then the result is filled in
ReadAll ==
    /\ pc = "readAll"
    /\ \E err \in {NoErr, "read failed"}, d \in 0..(MaxTime - now) :
          /\ now' = now + d
          /\ tBody' = now + d
          /\ result' = AfterReadAll(response,
                                    IF err = NoErr THEN <<"body">> ELSE <<"bo">>,
                                    err, t0, now + d)
    /\ pc' = "report"
    /\ UNCHANGED <<argv, options, username, password, urlstring, hostname,
                   port, lookedup, lookups, iplist, request, idx, address,
                   client, attempts, response, output, t0, tHeaders>>

\* (mutant) the loop of main stops at the first failed attempt
AfterQueryAbort(o, r) ==
    IF o.queryall /\ r.err = NoErr THEN "loop" ELSE "done"

\* where main goes after querySingle returned with result r: the loop goes
\* on whatever r is
\* (mutant) an attempt that failed is made again
AfterQueryRetry(o, r) ==
    IF r.err # NoErr THEN "getClient"
    ELSE IF o.queryall THEN "loop" ELSE "done"

AfterQuery(o, r) == IF o.queryall THEN "loop" ELSE "done"

\* querySingle: the error, or the report blocks
Report ==
    /\ pc = "report"
    /\ output' = output \o ReportBlocks(options, result)
    /\ pc' = AfterQuery(options, result)
    /\ UNCHANGED <<argv, options, username, password, urlstring, hostname,
                   port, lookedup, lookups, iplist, request, idx, address,
                   client, attempts, response, result, now, t0, tHeaders, tBody>>

Next ==
    \/ DoFlags
    \/ Url2AddressPort
    \/ GetIpListFail
    \/ GetIpList
    \/ Prologue
    \/ GetRequest
    \/ LoopNext
    \/ LoopEnd
    \/ Single
    \/ GetClient
    \/ ClientDoFail
    \/ ClientDoOk
    \/ ReadAll
    \/ Report

Spec == Init /\ [][Next]_vars

----------------------------------------------------------------------------
\* The address filter by itself: the run up to the end of getIpList, for the
\* command lines that differ in -4 and -6 only, on any lookup result.

FilterCommandLines ==
    {[PlainArgv EXCEPT !.ipv4only = v4, !.ipv6only = v6] : v4, v6 \in BOOLEAN}

InitFilter == InitFrom(FilterCommandLines)

GetIpListWide == GetIpListFrom(WideLookupResults)

NextFilter ==
    \/ DoFlags
    \/ Url2AddressPort
    \/ GetIpListWide

SpecFilter == InitFilter /\ [][NextFilter]_vars

----------------------------------------------------------------------------
\* The trust material: runs over every -cacert and -clientcert file, with
\* and without -noverify, in single-address and in multi-address mode.

TrustCommandLines ==
    {[PlainArgv EXCEPT !.cacert = ca, !.clientcert = cc, !.noverify = nv,
                       !.queryall = qa] :
        ca \in WideCaCertArgs, cc \in WideClientCertArgs, nv, qa \in BOOLEAN}

InitTrust == InitFrom(TrustCommandLines)

SpecTrust == InitTrust /\ [][Next]_vars

----------------------------------------------------------------------------
\* The request: a custom User-Agent header or none, a URL with a port or
\* without, in single-address and in multi-address mode.

RequestCommandLines ==
    {[PlainArgv EXCEPT !.headers = hs, !.args = <<u>>, !.queryall = qa] :
        hs \in {Empty, <<HdrUA>>, <<HdrGood, HdrUA>>},
        u \in {UrlHttps, UrlHttps8443}, qa \in BOOLEAN}

InitRequest == InitFrom(RequestCommandLines)

SpecRequest == InitRequest /\ [][Next]_vars

----------------------------------------------------------------------------
\* The certificate display: -showcert and -showcertchain against servers
\* that present chains of every length, verified along one path or two, or
\* not verified under -noverify; one request to the host.

ChainCommandLines ==
    {[PlainArgv EXCEPT !.showcert = sc, !.showcertchain = scc, !.noverify = nv] :
        sc, scc, nv \in BOOLEAN}

InitChain == InitFrom(ChainCommandLines)

ClientDoOkWide == ClientDoOkFrom(WideServers)

NextChain ==
    \/ DoFlags
    \/ Url2AddressPort
    \/ GetIpListFail
    \/ GetIpList
    \/ Prologue
    \/ GetRequest
    \/ Single
    \/ GetClient
    \/ ClientDoFail
    \/ ClientDoOkWide
    \/ ReadAll
    \/ Report

SpecChain == InitChain /\ [][NextChain]_vars

----------------------------------------------------------------------------
\* The run as a sequential program that keeps going: every step that can be
\* taken is taken, and client.Do and the body read return, with a response
\* or an error, within the timeout of the client. The command lines differ
\* in the probing mode and in whether the headers and the trust material
\* are in order.

LiveCommandLines ==
    {[PlainArgv EXCEPT !.queryall = qa, !.ipv4only = v4, !.cacert = ca,
                       !.headers = hs, !.printbody = pb] :
        qa, v4, pb \in BOOLEAN, ca \in {"", "missing.pem"},
        hs \in {Empty, <<HdrGood>>, <<HdrNoColon>>}}

InitLive == InitFrom(LiveCommandLines)

SpecLive == InitLive /\ [][Next]_vars /\ WF_vars(Next)

----------------------------------------------------------------------------
\* Helpers of the properties.

\* the positions of the events of kind ev in the output
Positions(ev) == {i \in 1..Len(output) : output[i].ev = ev}

\* the k-th CONNECT line is the one of the k-th address
ConnectLine(k) == Event("CONNECT", IPString(iplist[k]) \o port)

\* the run is past flag processing, which accepted the command line
Accepted == pc \notin {"doFlags", "exit4", "panic"} \/ (pc = "panic" /\ lookups > 0)

\* a header argument of the command line has no colon
BadHeaderArg == \E i \in 1..Len(argv.headers) : ~Contains(argv.headers[i], ":")

----------------------------------------------------------------------------
\* C1: in multi-address mode the run makes one request attempt per resolved
\* address, in resolution order, each after its own CONNECT line, and an
\* attempt that failed does not stop the later ones: when the run is done,
\* every address of the list was attempted once.
C1_OneAttemptPerAddress ==
    (options.queryall /\ Accepted) =>
        /\ idx <= Len(iplist)
        /\ Cardinality(Positions("CONNECT")) = idx
        /\ \A k \in 1..idx :
              \E i \in Positions("CONNECT") :
                 /\ output[i] = ConnectLine(k)
                 /\ Cardinality({j \in Positions("CONNECT") : j <= i}) = k
        /\ Len(attempts) <= idx
        /\ Len(attempts) >= idx - 1
        /\ (pc \in {"loop", "done"} => Len(attempts) = idx)
        /\ \A k \in 1..Len(attempts) :
              attempts[k].address = addressString(iplist[k], port)
        /\ (pc = "done" => Len(attempts) = Len(iplist))

\* two addresses, the first attempt failed, the second was still made
C1_Witness ==
    /\ pc = "done"
    /\ options.queryall
    /\ Len(iplist) = 2
    /\ Len(attempts) = 2
    /\ \E i \in Positions("error"), j \in Positions("CONNECT") :
          /\ i < j
          /\ output[j] = ConnectLine(2)
          /\ output[Len(output)].ev # "error"

----------------------------------------------------------------------------
----------------------------------------------------------------------------
\* C3 (as claimed): when the lookup succeeded and the family filter left no
\* address, the run does not finish normally.
C3_EmptyFilterIsFatal ==
    ((options.ipv4only \/ options.ipv6only) /\ Len(lookedup) > 0 /\ iplist = Empty)
        => pc # "done"

----------------------------------------------------------------------------
\* C4 (as claimed): a run whose command line has a header argument with no
\* colon fails before the hostname lookup and before any request is sent.
C4_BadHeaderBeforeLookup ==
    BadHeaderArg => (lookups = 0 /\ attempts = Empty)

----------------------------------------------------------------------------
\* C5: when both -4 and -6 are given, flag processing ends the run: there is
\* no hostname lookup and no request attempt, and the run never gets past
\* doFlags.
C5_BothFamiliesRejected ==
    (argv.ipv4only /\ argv.ipv6only) =>
        /\ pc \in {"doFlags", "exit4", "panic"}
        /\ (pc = "panic" => ~Contains(argv.authbasic, ":"))
        /\ lookups = 0
        /\ lookedup = Empty
        /\ attempts = Empty

\* the run with -4 and -6 has ended in doFlags
C5_Witness ==
    /\ argv.ipv4only /\ argv.ipv6only
    /\ pc = "exit4"
    /\ options.ipv4only /\ options.ipv6only

----------------------------------------------------------------------------
\* C6: once flag processing accepted the command line, a family filter
\* implies queryall and queryall implies noredirect; so a run with a family
\* filter probes the filtered addresses one by one, with a client that does
\* not follow redirects.
C6_FilterImpliesQueryallNoRedirect ==
    Accepted =>
        /\ ((options.ipv4only \/ options.ipv6only) => options.queryall)
        /\ (options.queryall => options.noredirect)
        /\ ((options.ipv4only \/ options.ipv6only) =>
               /\ (pc \in {"do", "readAll", "report"} => client.checkRedirect)
               /\ \A k \in 1..Len(attempts) :
                     /\ attempts[k].address = addressString(iplist[k], port)
                     /\ Len(attempts[k].dials) = 1)

\* -4 alone: the address answered with a redirect, which was not followed
C6_Witness ==
    /\ argv.ipv4only /\ ~argv.queryall /\ ~argv.noredirect
    /\ pc = "report"
    /\ result.err = NoErr
    /\ result.response.StatusCode = 302
    /\ options.queryall /\ options.noredirect

----------------------------------------------------------------------------
\* C8: with -4, -6 and -queryall all unset the run makes at most one request
\* attempt, with no fixed dial address (the client dials what the transport
\* asks for), and exactly one when it is done, whatever the lookup returned.
C8_SingleAttempt ==
    (Accepted /\ ~argv.ipv4only /\ ~argv.ipv6only /\ ~argv.queryall) =>
        /\ Len(attempts) <= 1
        /\ \A k \in 1..Len(attempts) :
              /\ attempts[k].address = Empty
              /\ attempts[k].dials[1] = HostPort(hostname, port)
        /\ (pc \in {"do", "readAll", "report"} => client.dial = Empty)
        /\ (pc = "done" => Len(attempts) = 1)
        /\ Positions("CONNECT") = {}

\* the host has two addresses, one attempt was made
C8_Witness ==
    /\ ~argv.ipv4only /\ ~argv.ipv6only /\ ~argv.queryall
    /\ pc = "done"
    /\ Len(iplist) = 2
    /\ Len(attempts) = 1
    /\ attempts[1].address = Empty

----------------------------------------------------------------------------
\* C9: a client built with a fixed address dials that address for every
\* connection, whatever address the transport asks for; the server name of
\* the handshake is the URL's hostname unless -sni is given, and the Host
\* header is the URL's hostname; neither is the address.
TransportAsks == {HostPort(hostname, port), RedirectHostPort}

C9_FixedAddressDial ==
    /\ (pc \in {"do", "readAll", "report"} /\ address # Empty) =>
          /\ client.dial = address
          /\ \A u \in TransportAsks : DialTarget(client, u) = address
    /\ \A k \in 1..Len(attempts) :
          attempts[k].address # Empty =>
             /\ \A i \in 1..Len(attempts[k].dials) :
                   attempts[k].dials[i] = attempts[k].address
             /\ attempts[k].address = addressString(iplist[k], port)
             /\ attempts[k].host = hostname
             /\ <<attempts[k].host>> # IPString(iplist[k])
             /\ (options.sni = "" =>
                   /\ attempts[k].servername = hostname
                   /\ <<attempts[k].servername>> # IPString(iplist[k]))
             /\ (options.sni # "" => attempts[k].servername = options.sni)

\* an attempt at a fixed address, without -sni
C9_Witness ==
    /\ Len(attempts) = 2
    /\ attempts[2].address = addressString(IP6a, port)
    /\ attempts[2].dials = <<addressString(IP6a, port)>>
    /\ options.sni = ""
    /\ attempts[2].servername = "example.test"

----------------------------------------------------------------------------
\* C10 (as claimed): the response time of a result is the time from just
\* before client.Do to the moment the response headers were available.
C10_StopBeforeBodyRead ==
    (pc = "report" /\ result.err = NoErr) => result.responsetime = tHeaders - t0

\* C10 (amended): the response time of a result is the time from just before
\* client.Do to just after ioutil.ReadAll returned: the stop time is taken
\* after the body read, so the interval includes the body-read time.
C10_StopAfterBodyRead ==
    (pc = "report" /\ ~result.response.nil) =>
        /\ result.responsetime = tBody - t0
        /\ result.responsetime >= tHeaders - t0
        /\ tHeaders <= tBody
        /\ t0 <= tHeaders

\* a successful exchange whose body read took time
C10_Witness ==
    /\ pc = "report"
    /\ result.err = NoErr
    /\ tBody > tHeaders
    /\ result.responsetime > tHeaders - t0

----------------------------------------------------------------------------
\* C7: getIpList returns the lookup result unchanged when no family is asked
\* for, and else exactly the entries of the asked family (IPv4: the address
\* has a 4-byte form), in the order the lookup returned them.
HasV4Form(ip) == ip.len = 4 \/ ip.v4in6

Wanted(ip) == IF options.ipv4only THEN HasV4Form(ip) ELSE ~HasV4Form(ip)

C7_FilterKeepsOrder ==
    pc = "prologue" =>
        IF ~(options.ipv4only \/ options.ipv6only)
        THEN iplist = lookedup
        ELSE /\ iplist = SelectSeq(lookedup, Wanted)
             /\ \A i \in 1..Len(iplist) : Wanted(iplist[i])
             /\ Len(iplist) = Cardinality({i \in 1..Len(lookedup) : Wanted(lookedup[i])})

\* -4 on a list of three: the IPv6 entry in the middle is dropped, the two
\* IPv4 entries keep their order
C7_Witness ==
    /\ pc = "prologue"
    /\ options.ipv4only
    /\ lookedup = <<IP4m, IP6a, IP4a>>
    /\ iplist = <<IP4m, IP4a>>

----------------------------------------------------------------------------
\* C11: the TLS configuration of every client. With noverify, validation is
\* disabled and the CA bundle file is never read, whatever -cacert names (a
\* bundle that cannot be read is then not fatal); without noverify and with
\* a CA bundle, the roots are a pool of its own holding certificates of that
\* bundle only; with neither, the roots are left nil (the default store).
C11_SkipOrBundleOrDefault ==
    /\ (~client.nil =>
          /\ client.tls.InsecureSkipVerify = options.noverify
          /\ (options.noverify =>
                /\ options.cacert \notin client.tls.read
                /\ client.tls.RootCAs = NilPool)
          /\ (~options.noverify /\ options.cacert # "" =>
                /\ options.cacert \in client.tls.read
                /\ ~client.tls.RootCAs.nil
                /\ client.tls.RootCAs.certs \subseteq {options.cacert}
                /\ (options.cacert = "ca.pem" => client.tls.RootCAs.certs = {"ca.pem"}))
          /\ (~options.noverify /\ options.cacert = "" =>
                client.tls.RootCAs = NilPool))
    /\ (pc = "fatal" /\ ~request.nil /\ options.noverify =>
          ~LoadX509KeyPairOk(options.clientcert))

\* noverify together with a CA bundle that does not exist: the client was
\* built and its request is under way
C11_Witness ==
    /\ options.noverify
    /\ options.cacert = "missing.pem"
    /\ ~client.nil
    /\ pc = "readAll"

----------------------------------------------------------------------------
\* the blocks other than the body that a run can print
NonBodyBlocks ==
    {"prologue", "CONNECT", "ResponseTime", "TLS", "FullChain", "PeerCert",
     "VerifiedChain", "VerifiedCert", "PeerCertificate", "Status", "Headers"}

\* C13: in body-only mode the run prints no prologue, no per-address
\* CONNECT line, no response time, no TLS block, no status block and no
\* header block, in single-address and in multi-address mode.
C13_BodyOnlyPrintsBodyOnly ==
    options.bodyonly /\ Accepted =>
        \A i \in 1..Len(output) : output[i].ev \notin NonBodyBlocks

----------------------------------------------------------------------------
\* C15: a -authbasic argument without a colon is rejected during flag
\* processing: the run ends there with the exit for configuration errors, it
\* neither crashes nor goes on.
C15_NoColonCredentialRejected ==
    (argv.authbasic # Empty /\ ~Contains(argv.authbasic, ":")) =>
        pc \in {"doFlags", "exit4"}

----------------------------------------------------------------------------
\* the kinds of block querySingle prints for a response
ResultBlocks == (NonBodyBlocks \cup {"Body"}) \ {"prologue", "CONNECT"}

\* C19: when the result of an attempt carries an error, from client.Do or
\* from the body read, querySingle prints the error and nothing else; the
\* blocks of a response are printed only for a result without error.
C19_ErrorPrintsOnlyError ==
    [][pc = "report" =>
         /\ (result.err # NoErr => output' = Append(output, Event("error", Empty)))
         /\ (result.err = NoErr =>
               /\ Len(output') >= Len(output)
               /\ \A i \in (Len(output) + 1)..Len(output') :
                     output'[i].ev \in ResultBlocks)
         /\ (\E i \in (Len(output) + 1)..Len(output') : output'[i].ev \in ResultBlocks)
               => result.err = NoErr]_vars

\* the body read failed after the response headers had arrived, and the
\* report of that attempt is the error line
C19_Witness ==
    /\ pc \in {"loop", "done"}
    /\ result.err = "read failed"
    /\ ~result.response.nil
    /\ output # Empty
    /\ output[Len(output)] = Event("error", Empty)

----------------------------------------------------------------------------
\* the trust material of the command line has an error that applies: a CA
\* bundle that cannot be read or holds no certificate, unless -noverify
\* leaves it aside, or a client certificate and key that cannot be loaded
TrustMaterialError ==
    \/ (~options.noverify /\ options.cacert \in {"missing.pem", "garbage.pem"})
    \/ options.clientcert \in {"badclient.pem", "mismatch.pem"}

\* C12: every trust-material error is fatal and is found while the TLS
\* configuration is built: no client is built and no connection attempt is
\* made to any address.
C12_TrustErrorsFatalBeforeAttempt ==
    (Accepted /\ TrustMaterialError) =>
        /\ client.nil
        /\ attempts = Empty

----------------------------------------------------------------------------
\* the values of the -header arguments named User-Agent, in their order
CustomAgents ==
    LET hs == options.headers
        RECURSIVE Pick(_)
        Pick(i) == IF i > Len(hs) THEN Empty
                   ELSE (IF Len(SplitN2(hs[i])) = 2 /\ SplitN2(hs[i])[1] = <<"User-Agent">>
                         THEN <<SplitN2(hs[i])[2]>> ELSE Empty) \o Pick(i + 1)
    IN  Pick(1)

\* C14: with a custom User-Agent header the request carries the custom
\* value only under User-Agent, and that is the value it is sent with.
C14_CustomUserAgentOverrides ==
    (~request.nil /\ CustomAgents # Empty) =>
        /\ HeaderValues(request.header, <<"User-Agent">>)
              = <<CustomAgents[Len(CustomAgents)]>>
        /\ \A k \in 1..Len(attempts) :
              attempts[k].agent = CustomAgents[Len(CustomAgents)]

----------------------------------------------------------------------------
\* C17: the address a client of the loop is built for is "[ip]:port" when
\* the text of the address has a colon and "ip:port" when it has none; ::1
\* with 8443 gives [::1]:8443 and 192.0.2.1 with 8443 gives 192.0.2.1:8443.
C17_AddressStringBrackets ==
    (options.queryall /\ idx >= 1 /\ pc \in {"getClient", "do", "readAll", "report"}) =>
        LET ip   == iplist[idx]
            text == IPString(ip)
        IN  /\ Contains(text, ":") => address = <<"[">> \o text \o <<"]", ":">> \o port
            /\ ~Contains(text, ":") => address = text \o <<":">> \o port
            /\ (ip = IP6a /\ port = <<"8443">>) =>
                   address = <<"[", ":", ":", "1", "]", ":", "8443">>
            /\ (ip = IP4a /\ port = <<"8443">>) =>
                   address = <<"192.0.2.1", ":", "8443">>
            /\ (ip = IP4m /\ port = <<"8443">>) =>
                   address = <<"192.0.2.2", ":", "8443">>

\* a request to [::1]:8443 is under way after one to 192.0.2.1:8443
C17_Witness ==
    /\ pc = "do"
    /\ iplist = <<IP4a, IP6a>>
    /\ idx = 2
    /\ port = <<"8443">>
    /\ address = <<"[", ":", ":", "1", "]", ":", "8443">>
    /\ attempts # Empty
    /\ attempts[1].address = <<"192.0.2.1", ":", "8443">>

----------------------------------------------------------------------------
\* the events of kind ev in the output, in order
EventsOf(ev) == SelectSeq(output, LAMBDA e : e.ev = ev)

\* a finished run whose one secure exchange was reported with the full
\* chain display
FullChainReported ==
    /\ pc = "done"
    /\ options.showcertchain
    /\ result.err = NoErr
    /\ result.response.TLS

\* the chain display: the peer certificates are rendered one for one in the
\* order the server presented them, before any verified chain, and every
\* rendered verified chain starts at a certificate with the peer leaf's
\* subject
ChainsRendered ==
    LET peer   == result.response.State.PeerCertificates
        chains == result.response.State.VerifiedChains
    IN  /\ EventsOf("PeerCert")
              = [i \in 1..Len(peer) |-> Event("PeerCert", <<peer[i].Subject, peer[i].Issuer>>)]
        /\ \A i \in Positions("PeerCert") :
              \A j \in Positions("VerifiedChain") \cup Positions("VerifiedCert") : i < j
        /\ Len(EventsOf("VerifiedChain")) = Len(chains)
        /\ \A j \in Positions("VerifiedChain") :
              /\ j < Len(output)
              /\ output[j + 1].ev = "VerifiedCert"
              /\ output[j + 1].arg[1] = peer[1].Subject

\* what the report prints between the last peer certificate and the status
BetweenPeerChainAndStatus ==
    {j \in 1..Len(output) :
        /\ \A i \in Positions("PeerCert") : i < j
        /\ \A k \in Positions("Status") : j < k
        /\ Positions("PeerCert") # {}}

\* C16 as stated: the chains are rendered as above, and when no chain was
\* verified the report says so, between the peer chain and the status.
C16_AbsenceOfVerifiedChainReported ==
    FullChainReported =>
        /\ ChainsRendered
        /\ (result.response.State.VerifiedChains = Empty =>
               BetweenPeerChainAndStatus # {})

\* C16: for a secure exchange with the full chain display the peer
\* certificates are rendered one for one in the presented order before any
\* verified chain, every rendered verified chain starts at the peer leaf's
\* subject, and when no chain was verified nothing is printed for verified
\* chains: the status follows the last peer certificate.
C16_ChainsRenderedAbsenceSilent ==
    FullChainReported =>
        /\ ChainsRendered
        /\ (result.response.State.VerifiedChains = Empty =>
               /\ Positions("VerifiedChain") \cup Positions("VerifiedCert") = {}
               /\ BetweenPeerChainAndStatus = {})

\* under -noverify a server presented a chain of two certificates: both
\* were rendered and the status follows them
C16_Witness ==
    /\ FullChainReported
    /\ options.noverify
    /\ Len(result.response.State.PeerCertificates) = 2
    /\ Len(EventsOf("PeerCert")) = 2
    /\ result.response.State.VerifiedChains = Empty

----------------------------------------------------------------------------
\* the run has its address list, and its headers and trust material are in
\* order
ResolvedAndConfigured ==
    /\ pc = "prologue"
    /\ ~BadHeaderArg
    /\ ~TrustMaterialError

\* no address is attempted twice, and there are no more attempts than
\* addresses in multi-address mode, no more than one otherwise
NoRetry ==
    /\ Len(attempts) <= (IF options.queryall THEN Len(iplist) ELSE 1)
    /\ \A j, k \in 1..Len(attempts) :
          (j # k /\ options.queryall) => attempts[j].address # attempts[k].address

\* C18: a run that passed configuration and resolution ends in Done
\* whatever the outcome of each attempt, and no address is attempted more
\* than once: at most as many attempts as addresses in multi-address mode,
\* at most one otherwise.
C18_ReachesDoneWithoutRetry ==
    /\ ResolvedAndConfigured ~> (pc = "done")
    /\ []NoRetry

\* a multi-address run is done: both attempts failed and none was repeated
C18_Witness ==
    /\ pc = "done"
    /\ options.queryall
    /\ Len(iplist) = 2
    /\ Len(attempts) = 2
    /\ result.err # NoErr
    /\ Positions("error") # {}
    /\ Cardinality(Positions("error")) = 2

====
